---- MODULE Spec2Model ----
(***************************************************************************)
(* Model of bot.py: a Telegram bot that relays an inbound file to Google   *)
(* Drive and replies with a public link.                                   *)
(*                                                                         *)
(* Strings are sequences of tokens (<<"report", ".", "pdf">>), so that     *)
(* formatting (f-strings), splitext and json.loads are computed.  An       *)
(* optional value is a sequence of length 0 (None) or 1 (<<v>>).           *)
(***************************************************************************)
EXTENDS Integers, Sequences, FiniteSets, TLC

\* ---------------------------------------------------------------- bounds
\* number of updates the gateway delivers in one run
NumEvents == 2

Events == 1..NumEvents

\* ------------------------------------------------------- values and inputs
None == <<>>

Some(v) == <<v>>

\* Python truthiness of an optional string: None and "" are falsy
Truthy(opt) == opt # None /\ opt[1] # <<>>

\* environment values the process can be started with
TokenChoices == { None, Some(<<>>), Some(<<"123:abc">>) }

CredChoices ==
  { None,
    Some(<<>>),
    Some(<<"{", "client_email", "private_key", "token_uri">>),
    Some(<<"{", "}">>),
    Some(<<"{", "client_email", "private_key", "token_uri", "}">>) }

FolderChoices == { None, Some(<<>>), Some(<<"folder1">>) }

\* filenames the platform can declare, and the platform's file ids
DeclaredNames == { <<"report", ".", "pdf">>, <<"README">> }

FileIds == { "xyz789" }

AttachmentKinds == { "document", "photo", "video", "audio" }

\* the updates the gateway can deliver: an attachment of one kind (a photo
\* is a PhotoSize, which has no file_name), a text-only message, or /start
Updates ==
  [ kind : {"document", "video", "audio"},
    file_name : {None} \cup { Some(n) : n \in DeclaredNames },
    file_id : FileIds ]
  \cup [ kind : {"photo"}, file_name : {None}, file_id : FileIds ]
  \cup [ kind : {"text", "command"}, file_name : {None}, file_id : {"-"} ]

NoUpdate == [ kind |-> "none", file_name |-> None, file_id |-> "-" ]

NoObject == [ exists |-> FALSE, id |-> "-", name |-> <<>>, parents |-> <<>>,
              public |-> FALSE ]

\* -------------------------------------------------------------- the state
VARIABLES
  env,                  \* os.environ: TELEGRAM_TOKEN, SERVICE_ACCOUNT_JSON, DRIVE_FOLDER_ID
  proc,                 \* "boot", "fatal" (import raised) or "running"
  service_account_info, \* result of json.loads (the set of keys), or None
  update,               \* update[e]: the update delivered as event e
  pc,                   \* pc[e]: where the handling of event e stands
  original_name,        \* handle_file's original_name (optional string)
  download_path,        \* handle_file's download_path (optional string)
  temp_exists,          \* the temp file of event e exists on disk
  obj,                  \* the Drive object created for event e
  upload_result,        \* what upload_to_drive did: "none", "url", "raised"
  exc,                  \* the exception being raised or handled (optional)
  replies,              \* the reply_text calls of event e, in order
  log                   \* the steps of event e, in order

vars == << env, proc, service_account_info, update, pc, original_name,
           download_path, temp_exists, obj, upload_result, exc, replies, log >>

\* ----------------------------------------------------------------- startup
\* json.loads on a token string: an object is "{" keys "}"
JsonValid(s) ==
  /\ Len(s) >= 2
  /\ s[1] = "{"
  /\ s[Len(s)] = "}"
  /\ \A i \in 2..(Len(s) - 1) : s[i] \notin {"{", "}"}

JsonLoads(s) == { s[i] : i \in 2..(Len(s) - 1) }

\* startup that does not require the folder id
StartupFatal_nofolder(e) ==
  \/ ~Truthy(e.TELEGRAM_TOKEN)
  \/ ~Truthy(e.SERVICE_ACCOUNT_JSON)
  \/ ~JsonValid(e.SERVICE_ACCOUNT_JSON[1])

\* lines 23-28 and 38-42: the module raises at import
StartupFatal(e) ==
  \/ ~Truthy(e.TELEGRAM_TOKEN)
  \/ ~Truthy(e.SERVICE_ACCOUNT_JSON)
  \/ ~Truthy(e.DRIVE_FOLDER_ID)
  \/ ~JsonValid(e.SERVICE_ACCOUNT_JSON[1])

Init ==
  /\ env \in [ TELEGRAM_TOKEN : TokenChoices,
               SERVICE_ACCOUNT_JSON : CredChoices,
               DRIVE_FOLDER_ID : FolderChoices ]
  /\ proc = "boot"
  /\ service_account_info = None
  /\ update = [ e \in Events |-> NoUpdate ]
  /\ pc = [ e \in Events |-> "free" ]
  /\ original_name = [ e \in Events |-> None ]
  /\ download_path = [ e \in Events |-> None ]
  /\ temp_exists = [ e \in Events |-> FALSE ]
  /\ obj = [ e \in Events |-> NoObject ]
  /\ upload_result = [ e \in Events |-> "none" ]
  /\ exc = [ e \in Events |-> None ]
  /\ replies = [ e \in Events |-> <<>> ]
  /\ log = [ e \in Events |-> <<>> ]

Startup ==
  /\ proc = "boot"
  /\ IF StartupFatal(env)
       THEN /\ proc' = "fatal"
            /\ UNCHANGED service_account_info
       ELSE /\ proc' = "running"
            /\ service_account_info' =
                 Some(JsonLoads(env.SERVICE_ACCOUNT_JSON[1]))
  /\ UNCHANGED << env, update, pc, original_name, download_path,
                  temp_exists, obj,
                  upload_result, exc, replies, log >>

\* ------------------------------------------------------- pure functions
\* default extension of the synthesized name, lines 103, 107, 111
DefaultExt(kind) ==
  CASE kind = "photo" -> "jpg"
    [] kind = "video" -> "mp4"
    [] kind = "audio" -> "mp3"

\* f"{kind}_{file_id}.{ext}"
Synthesized(u) == << u.kind, "_", u.file_id, ".", DefaultExt(u.kind) >>

\* name resolution that never looks at the declared name of a video or audio
ResolveName_synth(u) ==
  CASE u.kind = "document" -> u.file_name
    [] OTHER -> Some(Synthesized(u))

\* lines 96-111: original_name for the attachment of update u
ResolveName(u) ==
  CASE u.kind = "document" -> u.file_name
    [] u.kind = "photo" -> Some(Synthesized(u))
    [] u.kind \in {"video", "audio"} ->
         IF Truthy(u.file_name) THEN u.file_name ELSE Some(Synthesized(u))

HasDot(n) == \E i \in DOMAIN n : n[i] = "."

LastDot(n) ==
  CHOOSE i \in DOMAIN n : n[i] = "." /\ \A j \in DOMAIN n : j > i => n[j] # "."

\* os.path.splitext(n)[1]: from the last dot, unless only dots precede it
SplitextExt(n) ==
  IF HasDot(n) /\ \E j \in 1..(LastDot(n) - 1) : n[j] # "."
    THEN SubSeq(n, LastDot(n), Len(n))
    ELSE <<>>

\* line 117
Suffix(n) == IF HasDot(n) THEN SplitextExt(n) ELSE <<>>

\* line 79
ViewUrl(file_id) == << "https://drive.google.com/file/d/", file_id, "/view" >>

\* lines 128-132
SuccessReply(name, link) ==
  [ marker |-> "success",
    text |-> << "File uploaded to Google Drive!", "Filename: " >> \o name
             \o << "Download link: " >> \o link,
    status |-> "pending" ]

\* line 135: the failure marker and str(e)
FailureReply(e) ==
  [ marker |-> "failure",
    text |-> << "Upload failed: " >> \o e,
    status |-> "pending" ]

\* line 113
UnsupportedReply ==
  [ marker |-> "unsupported", text |-> << "Unsupported file type!" >>,
    status |-> "pending" ]

\* line 90
UsageReply ==
  [ marker |-> "usage",
    text |-> << "Send me a file to upload to Google Drive!" >>,
    status |-> "pending" ]

\* ids the provider can assign, and the errors the collaborators can raise
ObjectIds == { "abc123" }

CallOutcomes == { "ok", "HttpError", "Exception" }

\* lines 81-86: what upload_to_drive raises when a Drive call raises
UploadError(out) ==
  IF out = "HttpError"
    THEN << "Drive API error: ", "403", " - ", "quotaExceeded" >>
    ELSE << "timed out" >>

\* line 46: from_service_account_info needs these fields
ValidInfo(info) == {"client_email", "private_key", "token_uri"} \subseteq info

\* ------------------------------------------------------------- scheduling
\* line 142: the Application is built with the default update processing,
\* one update at a time
concurrent_updates == FALSE

\* upload_to_drive is a plain function: its HTTP calls run on the event loop
Blocking == { "in_create", "in_grant" }

Awaiting == { "await_get_file", "await_download", "await_reply" }

Active == Blocking \cup Awaiting

Finished == { "done", "raised" }

\* the event loop can run code of event e
LoopFree(e) == \A f \in Events \ {e} : pc[f] \notin Blocking

\* the update fetcher can hand update e to its handler
Runnable(e) ==
  /\ LoopFree(e)
  /\ \A f \in Events : f < e => pc[f] # "queued"
  /\ concurrent_updates \/ \A f \in Events \ {e} : pc[f] \notin Active \cup Finished

Append2(s, a, b) == Append(Append(s, a), b)

SetLast(s, st) == [ s EXCEPT ![Len(s)].status = st ]

\* -------------------------------------------------------------- operations
\* the gateway delivers the next update
Deliver(e) ==
  /\ proc = "running"
  /\ pc[e] = "free"
  /\ \A f \in Events : f < e => pc[f] # "free"
  /\ \E u \in Updates : update' = [ update EXCEPT ![e] = u ]
  /\ pc' = [ pc EXCEPT ![e] = "queued" ]
  /\ UNCHANGED << env, proc, service_account_info, original_name,
                  download_path, temp_exists, obj, upload_result, exc,
                  replies, log >>

\* lines 144-147: filters.Document.ALL | PHOTO | VIDEO | AUDIO
FileFilter(u) == u.kind \in AttachmentKinds

\* lines 93-114: handle_file up to its first await
HandleFileBegin(e) ==
  IF update[e].kind \in AttachmentKinds
    THEN /\ pc' = [ pc EXCEPT ![e] = "await_get_file" ]
         /\ log' = [ log EXCEPT ![e] = Append(@, "get_file_start") ]
         /\ UNCHANGED replies
    ELSE /\ pc' = [ pc EXCEPT ![e] = "await_reply" ]
         /\ replies' = [ replies EXCEPT ![e] = Append(@, UnsupportedReply) ]
         /\ log' = [ log EXCEPT ![e] = Append(@, "reply_start") ]

\* lines 89-90
StartBegin(e) ==
  /\ pc' = [ pc EXCEPT ![e] = "await_reply" ]
  /\ replies' = [ replies EXCEPT ![e] = Append(@, UsageReply) ]
  /\ log' = [ log EXCEPT ![e] = Append(@, "reply_start") ]

\* lines 141-149: the update goes to the first handler that accepts it
Dispatch(e) ==
  /\ pc[e] = "queued"
  /\ Runnable(e)
  /\ IF update[e].kind = "command"
       THEN StartBegin(e)
       ELSE IF FileFilter(update[e])
         THEN HandleFileBegin(e)
         ELSE /\ pc' = [ pc EXCEPT ![e] = "done" ]
              /\ log' = [ log EXCEPT ![e] = Append(@, "unhandled") ]
              /\ UNCHANGED replies
  /\ UNCHANGED << env, proc, service_account_info, update, original_name,
                  download_path, temp_exists, obj, upload_result, exc >>

\* lines 98-122: get_file returns or raises; the name, the temp file
GetFileReturn(e) ==
  /\ pc[e] = "await_get_file"
  /\ LoopFree(e)
  /\ \E ok \in BOOLEAN, tmp_ok \in BOOLEAN :
       LET name == ResolveName(update[e]) IN
       IF ~ok
         THEN /\ pc' = [ pc EXCEPT ![e] = "raised" ]
              /\ exc' = [ exc EXCEPT ![e] = Some(<< "get_file failed" >>) ]
              /\ log' = [ log EXCEPT ![e] = Append(@, "get_file_fail") ]
              /\ UNCHANGED << original_name, download_path, temp_exists >>
         ELSE IF name = None
           THEN \* '.' in None raises TypeError
                /\ pc' = [ pc EXCEPT ![e] = "raised" ]
                /\ exc' = [ exc EXCEPT ![e] = Some(<< "TypeError" >>) ]
                /\ original_name' = [ original_name EXCEPT ![e] = name ]
                /\ log' = [ log EXCEPT ![e] =
                              Append2(@, "get_file_ok", "name_fail") ]
                /\ UNCHANGED << download_path, temp_exists >>
           ELSE IF ~tmp_ok
             THEN /\ pc' = [ pc EXCEPT ![e] = "raised" ]
                  /\ exc' = [ exc EXCEPT ![e] = Some(<< "OSError" >>) ]
                  /\ original_name' = [ original_name EXCEPT ![e] = name ]
                  /\ log' = [ log EXCEPT ![e] =
                                Append2(@, "get_file_ok", "mktemp_fail") ]
                  /\ UNCHANGED << download_path, temp_exists >>
             ELSE /\ pc' = [ pc EXCEPT ![e] = "await_download" ]
                  /\ original_name' = [ original_name EXCEPT ![e] = name ]
                  /\ download_path' = [ download_path EXCEPT ![e] =
                       Some(<< "tmp", ToString(e) >> \o Suffix(name[1])) ]
                  /\ temp_exists' = [ temp_exists EXCEPT ![e] = TRUE ]
                  /\ log' = [ log EXCEPT ![e] =
                       Append2(Append(@, "get_file_ok"), "mktemp",
                               "download_start") ]
                  /\ UNCHANGED exc
  /\ UNCHANGED << env, proc, service_account_info, update, obj,
                  upload_result, replies >>

\* lines 133-135: the handler's except clause sends the failure reply
FailWith(e, msg, steps) ==
  /\ pc' = [ pc EXCEPT ![e] = "await_reply" ]
  /\ exc' = [ exc EXCEPT ![e] = Some(msg) ]
  /\ upload_result' = [ upload_result EXCEPT ![e] = "raised" ]
  /\ replies' = [ replies EXCEPT ![e] = Append(@, FailureReply(msg)) ]
  /\ log' = [ log EXCEPT ![e] =
                Append2(@ \o steps, "upload_raise", "reply_start") ]

\* lines 126-127 and 53-68: upload_to_drive is entered, up to files().create
EnterUpload(e, downloaded) ==
  IF ~ValidInfo(service_account_info[1])
    THEN /\ FailWith(e, << "missing fields" >>,
                     << downloaded, "upload_enter", "auth_fail" >>)
         /\ UNCHANGED << original_name, download_path, temp_exists, obj >>
    ELSE /\ pc' = [ pc EXCEPT ![e] = "in_create" ]
         /\ log' = [ log EXCEPT ![e] =
              Append2(Append(@, downloaded), "upload_enter", "create_start") ]
         /\ UNCHANGED << original_name, download_path, temp_exists, obj,
                         upload_result, exc, replies >>

\* download that goes on to the upload although the download raised
DownloadReturn_swallow(e) ==
  /\ pc[e] = "await_download"
  /\ LoopFree(e)
  /\ \E ok \in BOOLEAN :
       EnterUpload(e, IF ok THEN "download_ok" ELSE "download_fail")
  /\ UNCHANGED << env, proc, service_account_info, update >>

\* lines 122-127: download_to_drive returns or raises
DownloadReturn(e) ==
  /\ pc[e] = "await_download"
  /\ LoopFree(e)
  /\ \E ok \in BOOLEAN :
       IF ~ok
         THEN /\ pc' = [ pc EXCEPT ![e] = "raised" ]
              /\ exc' = [ exc EXCEPT ![e] = Some(<< "download failed" >>) ]
              /\ log' = [ log EXCEPT ![e] = Append(@, "download_fail") ]
              /\ UNCHANGED << original_name, download_path, temp_exists, obj,
                              upload_result, replies >>
         ELSE EnterUpload(e, "download_ok")
  /\ UNCHANGED << env, proc, service_account_info, update >>

\* lines 64-77: files().create().execute() returns or raises
CreateReturn(e) ==
  /\ pc[e] = "in_create"
  /\ LoopFree(e)
  /\ \E out \in CallOutcomes, id \in ObjectIds :
       IF out = "ok"
         THEN /\ obj' = [ obj EXCEPT ![e] =
                   [ exists |-> TRUE, id |-> id, name |-> original_name[e][1],
                     parents |-> << env.DRIVE_FOLDER_ID[1] >>,
                     public |-> FALSE ] ]
              /\ pc' = [ pc EXCEPT ![e] = "in_grant" ]
              /\ log' = [ log EXCEPT ![e] =
                            Append2(@, "create_ok", "grant_start") ]
              /\ UNCHANGED << upload_result, exc, replies >>
         ELSE /\ FailWith(e, UploadError(out), << "create_fail" >>)
              /\ UNCHANGED obj
  /\ UNCHANGED << env, proc, service_account_info, update, original_name,
                  download_path, temp_exists >>

\* grant failure that is followed by a delete of the created object
ObjAfterGrant_rollback(o, out) ==
  IF out = "ok" THEN [ o EXCEPT !.public = TRUE ] ELSE NoObject

\* lines 73-77: the object after permissions().create().execute()
ObjAfterGrant(o, out) ==
  IF out = "ok" THEN [ o EXCEPT !.public = TRUE ] ELSE o

\* grant failure that is logged and not re-raised
GrantRaises_swallow(out) == FALSE

\* lines 74-86: an exception of the grant call leaves upload_to_drive
GrantRaises(out) == out # "ok"

\* lines 73-86 and 127-135: permissions().create().execute() returns or raises
GrantReturn(e) ==
  /\ pc[e] = "in_grant"
  /\ LoopFree(e)
  /\ \E out \in CallOutcomes :
       /\ obj' = [ obj EXCEPT ![e] = ObjAfterGrant(@, out) ]
       /\ IF GrantRaises(out)
            THEN FailWith(e, UploadError(out), << "grant_fail" >>)
            ELSE /\ upload_result' = [ upload_result EXCEPT ![e] = "url" ]
                 /\ replies' = [ replies EXCEPT ![e] =
                      Append(@, SuccessReply(original_name[e][1],
                                             ViewUrl(obj[e].id))) ]
                 /\ pc' = [ pc EXCEPT ![e] = "await_reply" ]
                 /\ log' = [ log EXCEPT ![e] =
                      Append2(Append(@, IF out = "ok" THEN "grant_ok"
                                                      ELSE "grant_fail"),
                              "upload_return", "reply_start") ]
                 /\ UNCHANGED exc
  /\ UNCHANGED << env, proc, service_account_info, update, original_name,
                  download_path, temp_exists >>

\* lines 136-139: the finally clause
Cleanup(e, steps) ==
  /\ temp_exists' = [ temp_exists EXCEPT ![e] = FALSE ]
  /\ log' = [ log EXCEPT ![e] =
       IF temp_exists[e] THEN Append(@ \o steps, "remove") ELSE @ \o steps ]

\* lines 90, 113, 128-139: reply_text returns or raises
ReplyReturn(e) ==
  /\ pc[e] = "await_reply"
  /\ LoopFree(e)
  /\ \E ok \in BOOLEAN :
       LET marker == replies[e][Len(replies[e])].marker IN
       IF ok
         THEN /\ replies' = [ replies EXCEPT ![e] = SetLast(@, "delivered") ]
              /\ pc' = [ pc EXCEPT ![e] = "done" ]
              /\ IF marker \in {"success", "failure"}
                   THEN Cleanup(e, << "reply_ok" >>)
                   ELSE /\ log' = [ log EXCEPT ![e] = Append(@, "reply_ok") ]
                        /\ UNCHANGED temp_exists
              /\ UNCHANGED exc
         ELSE /\ exc' = [ exc EXCEPT ![e] = Some(<< "reply failed" >>) ]
              /\ IF marker = "success"
                   THEN /\ replies' = [ replies EXCEPT ![e] =
                             Append(SetLast(@, "failed"),
                                    FailureReply(<< "reply failed" >>)) ]
                        /\ pc' = [ pc EXCEPT ![e] = "await_reply" ]
                        /\ log' = [ log EXCEPT ![e] =
                             Append2(@, "reply_fail", "reply_start") ]
                        /\ UNCHANGED temp_exists
                   ELSE /\ replies' = [ replies EXCEPT ![e] =
                             SetLast(@, "failed") ]
                        /\ pc' = [ pc EXCEPT ![e] = "raised" ]
                        /\ IF marker = "failure"
                             THEN Cleanup(e, << "reply_fail" >>)
                             ELSE /\ log' = [ log EXCEPT ![e] =
                                       Append(@, "reply_fail") ]
                                  /\ UNCHANGED temp_exists
  /\ UNCHANGED << env, proc, service_account_info, update, original_name,
                  download_path, obj, upload_result >>

\* line 149: the handler returned or raised (the framework logs it); the
\* update is consumed and nothing of it is kept, except a leaked temp file
TaskDone(e) ==
  /\ pc[e] \in Finished
  /\ pc' = [ pc EXCEPT ![e] = "forgotten" ]
  /\ update' = [ update EXCEPT ![e] = NoUpdate ]
  /\ original_name' = [ original_name EXCEPT ![e] = None ]
  /\ download_path' = [ download_path EXCEPT ![e] = None ]
  /\ obj' = [ obj EXCEPT ![e] = NoObject ]
  /\ upload_result' = [ upload_result EXCEPT ![e] = "none" ]
  /\ exc' = [ exc EXCEPT ![e] = None ]
  /\ replies' = [ replies EXCEPT ![e] = <<>> ]
  /\ log' = [ log EXCEPT ![e] = <<>> ]
  /\ UNCHANGED << env, proc, service_account_info, temp_exists >>

Next ==
  \/ Startup
  \/ \E e \in Events : Deliver(e)
  \/ \E e \in Events : Dispatch(e)
  \/ \E e \in Events : GetFileReturn(e)
  \/ \E e \in Events : DownloadReturn(e)
  \/ \E e \in Events : CreateReturn(e)
  \/ \E e \in Events : GrantReturn(e)
  \/ \E e \in Events : ReplyReturn(e)
  \/ \E e \in Events : TaskDone(e)

Spec == Init /\ [][Next]_vars

\* ------------------------------------------------------------ properties
Count(s, x) == Cardinality({ i \in DOMAIN s : s[i] = x })

Has(s, x) == \E i \in DOMAIN s : s[i] = x

\* every occurrence of b in s comes after an occurrence of a member of A
Before(s, A, b) ==
  \A j \in DOMAIN s : s[j] = b => \E i \in 1..(j - 1) : s[i] \in A

Delivered(e) == { i \in DOMAIN replies[e] : replies[e][i].status = "delivered" }

FileEvent(e) == update[e].kind \in AttachmentKinds

UploadEnded == { "upload_return", "upload_raise" }

\* C1: a temp file that was allocated is deleted exactly once by the time the
\* handler finishes, whatever later step failed, and not before the upload
\* step has ended.
C1_TempFileDeletedOnce ==
  \A e \in Events :
    (pc[e] \in Finished /\ Has(log[e], "mktemp")) =>
      /\ Count(log[e], "remove") = 1
      /\ ~temp_exists[e]
      /\ Before(log[e], UploadEnded, "remove")

\* C2: a finished file event has sent exactly one reply message.
C2_ExactlyOneReply ==
  \A e \in Events :
    (pc[e] \in Finished /\ FileEvent(e)) => Cardinality(Delivered(e)) = 1

\* C3: upload_to_drive returns a URL only after the permission grant
\* succeeded; when the grant fails it raises, the handler's last reply is the
\* failure reply and no success reply (with a link) is ever sent.
C3_NoLinkWithoutGrant ==
  \A e \in Events :
    /\ upload_result[e] = "url" =>
         Has(log[e], "grant_ok") /\ obj[e].exists /\ obj[e].public
    /\ \A i \in DOMAIN replies[e] :
         replies[e][i].marker = "success" => obj[e].public
    /\ Has(log[e], "grant_fail") =>
         /\ upload_result[e] = "raised"
         /\ replies[e] # <<>>
         /\ replies[e][Len(replies[e])].marker = "failure"
         /\ \A i \in DOMAIN replies[e] : replies[e][i].marker # "success"

C3_Witness ==
  \E e \in Events :
    /\ pc[e] = "done"
    /\ Has(log[e], "grant_fail")
    /\ replies[e][Len(replies[e])].status = "delivered"

StageFailures ==
  { "get_file_fail", "name_fail", "mktemp_fail", "download_fail",
    "auth_fail", "create_fail", "grant_fail" }

\* C4: an error of any stage before the reply is caught in handle_file and
\* becomes a failure reply with the failure marker; it does not leave the
\* handler.
C4_StageErrorBecomesFailureReply ==
  \A e \in Events :
    (pc[e] \in Finished /\ \E x \in StageFailures : Has(log[e], x)) =>
      /\ \E i \in DOMAIN replies[e] :
           /\ replies[e][i].marker = "failure"
           /\ replies[e][i].text[1] = "Upload failed: "
      /\ pc[e] = "raised" => exc[e] = Some(<< "reply failed" >>)

\* C5: a text-only message gets the fixed "unsupported file type" reply, and
\* no temp file and no storage call is made for it.
C5_TextGetsUnsupportedReply ==
  \A e \in Events :
    (pc[e] \in Finished /\ update[e].kind = "text") =>
      /\ Len(replies[e]) = 1
      /\ replies[e][1].marker = "unsupported"
      /\ ~Has(log[e], "mktemp")
      /\ ~Has(log[e], "create_start")
      /\ ~Has(log[e], "grant_start")

\* the synthesized name as the filename policy states it
PolicyName(u) ==
  << u.kind, "_", u.file_id, ".",
     CASE u.kind = "photo" -> "jpg"
       [] u.kind = "video" -> "mp4"
       [] u.kind = "audio" -> "mp3"
       [] OTHER -> "" >>

\* C6: once the file handle is there, the resolved name is the declared name
\* when there is one, else kind_id.ext (jpg, mp4, mp3); a document without a
\* declared name has no name, and its handler fails with no temp file and no
\* upload; a resolved name is never empty.
C6_FilenameResolution ==
  \A e \in Events :
    Has(log[e], "get_file_ok") =>
      /\ IF update[e].file_name # None
           THEN original_name[e] = update[e].file_name
           ELSE IF update[e].kind = "document"
             THEN /\ original_name[e] = None
                  /\ pc[e] = "raised"
                  /\ ~Has(log[e], "mktemp")
                  /\ ~Has(log[e], "create_start")
                  /\ ~obj[e].exists
             ELSE original_name[e] = Some(PolicyName(update[e]))
      /\ original_name[e] # None => Len(original_name[e][1]) > 0

C6_Witness ==
  \E e \in Events :
    /\ update[e].kind = "video"
    /\ update[e].file_name = None
    /\ original_name[e] = Some(<< "video", "_", "xyz789", ".", "mp4" >>)
    /\ pc[e] = "done"

Missing(v) == v = None \/ v = Some(<<>>)

\* C7 as stated: startup is fatal exactly when the token or the credential
\* is missing or the credential is not JSON; the folder id is optional.
C7_FolderOptional ==
  proc # "boot" =>
    ( proc = "fatal" <=>
        \/ Missing(env.TELEGRAM_TOKEN)
        \/ Missing(env.SERVICE_ACCOUNT_JSON)
        \/ ~JsonValid(env.SERVICE_ACCOUNT_JSON[1]) )

\* C7 amended: startup is fatal exactly when the token, the credential or the
\* folder id is missing (unset or empty) or the credential is not JSON; every
\* object is created inside the configured folder.
C7_FolderRequired ==
  /\ proc # "boot" =>
       ( proc = "fatal" <=>
           \/ Missing(env.TELEGRAM_TOKEN)
           \/ Missing(env.SERVICE_ACCOUNT_JSON)
           \/ Missing(env.DRIVE_FOLDER_ID)
           \/ ~JsonValid(env.SERVICE_ACCOUNT_JSON[1]) )
  /\ \A e \in Events :
       obj[e].exists =>
         /\ ~Missing(env.DRIVE_FOLDER_ID)
         /\ obj[e].parents = << env.DRIVE_FOLDER_ID[1] >>

C7_Witness ==
  /\ proc = "fatal"
  /\ Missing(env.DRIVE_FOLDER_ID)
  /\ ~Missing(env.TELEGRAM_TOKEN)
  /\ ~Missing(env.SERVICE_ACCOUNT_JSON)
  /\ JsonValid(env.SERVICE_ACCOUNT_JSON[1])

\* the order of download, create and grant within one file event
StepOrder(e) ==
  /\ Before(log[e], {"download_ok"}, "create_start")
  /\ Before(log[e], {"create_ok"}, "grant_start")
  /\ Has(log[e], "grant_start") =>
       Before(log[e], {"grant_ok", "grant_fail"}, "reply_start")

\* C8 as stated: download, then create, then grant, then reply; no reply
\* before the object-create call has been attempted.
C8_NoReplyBeforeCreate ==
  \A e \in Events :
    FileEvent(e) =>
      StepOrder(e) /\ Before(log[e], {"create_start"}, "reply_start")

\* C8 amended: download, then create, then grant, then reply; no reply
\* before upload_to_drive has returned or raised.
C8_NoReplyBeforeUploadEnds ==
  \A e \in Events :
    FileEvent(e) =>
      StepOrder(e) /\ Before(log[e], UploadEnded, "reply_start")

C8_Witness ==
  \E e \in Events :
    /\ pc[e] = "done"
    /\ Has(log[e], "download_ok")
    /\ Has(log[e], "grant_ok")
    /\ Cardinality(Delivered(e)) = 1

NetworkWait == { "await_get_file", "await_download", "in_create", "in_grant" }

\* C9: while one event waits on a network call, the handler of the next
\* delivered event can take its step.
C9_WaitDoesNotBlockOthers ==
  \A e, f \in Events :
    ( /\ e # f
      /\ pc[e] \in NetworkWait
      /\ pc[f] = "queued"
      /\ \A g \in Events : g < f => pc[g] # "queued" )
    => ENABLED Dispatch(f)

StorageCalls == { "create_start", "grant_start" }

\* C10: create and grant are each called at most once per event, no storage
\* call follows a failed one, and after a failed grant the created object
\* is still there and is not public.
C10_NoRetryNoRollback ==
  \A e \in Events :
    /\ Count(log[e], "create_start") <= 1
    /\ Count(log[e], "grant_start") <= 1
    /\ \A i, j \in DOMAIN log[e] :
         (i < j /\ log[e][i] \in {"create_fail", "grant_fail"}) =>
           log[e][j] \notin StorageCalls
    /\ Has(log[e], "create_ok") => obj[e].exists
    /\ Has(log[e], "grant_fail") => obj[e].exists /\ ~obj[e].public

C10_Witness ==
  \E e \in Events :
    /\ pc[e] \in Finished
    /\ Has(log[e], "grant_fail")
    /\ obj[e].exists
    /\ ~obj[e].public
====
